---- MODULE Spec2Model ----
(***************************************************************************)
(* ShoreSquad: the persistence of the application state (appState,         *)
(* loadUserData, saveUserData, handleJoinCleanup, addCrewMember) and the   *)
(* weather forecast pipeline (fetchWeatherData, displayWeatherForecast,    *)
(* getWeatherEmoji, displayWeatherError) of src/unnamed/part_000.  The     *)
(* persistence code of src/js/app.js is the same, line for line.           *)
(*                                                                         *)
(* The two components share no state (fetchWeatherData reads no field of   *)
(* appState), so each has its own specification over the module's          *)
(* variables:                                                              *)
(*   Spec          the state store, started on any content of localStorage *)
(*   SpecFresh     the state store, started on an empty localStorage       *)
(*   SpecForecast  the forecast pipeline, on any pair of responses         *)
(*   SpecEmoji     getWeatherEmoji, on texts made of forecast words        *)
(*   SpecSession   the state store in one session on an empty localStorage *)
(***************************************************************************)
EXTENDS Integers, Sequences, FiniteSets, TLC

VARIABLES
    appState,   \* the global appState object
    storage,    \* localStorage's entry under 'shoreSquadData'
    view,       \* what renderStats and renderCrewSection last wrote to the page
    diag,       \* the last console message of saveUserData / loadUserData
    pc,         \* "boot": DOMContentLoaded pending; "ready": listeners installed;
                \* "broken": initializeApp ended by an uncaught exception
    geo,        \* the getCurrentPosition request: "none", "pending", "done"
    clicks,     \* join clicks handled so far (bounds the model)
    lastJoin,   \* how the last handleJoinCleanup ended: "none", "completed", "threw"
    wpc,        \* where fetchWeatherData stands: "idle", "awaitCurrent",
                \* "awaitForecast", "awaitCurrentJson", "awaitForecastJson", "done"
    currentResponse,    \* what fetch(WEATHER_2HR) settled with
    forecastResponse,   \* what fetch(WEATHER_4DAY) settled with
    weatherData,        \* the content of the element with id weatherData
    issued,     \* the requests fetchWeatherData has issued, in order
    writes,     \* the assignments to weatherData.innerHTML so far
    emojiIn,    \* a forecast text handed to getWeatherEmoji
    emojiOut    \* what getWeatherEmoji returned for it

storeVars == <<appState, storage, view, diag, pc, geo, clicks, lastJoin>>
pipeVars == <<wpc, currentResponse, forecastResponse, weatherData, issued, writes>>
emojiVars == <<emojiIn, emojiOut>>
vars == <<storeVars, pipeVars, emojiVars>>

----------------------------------------------------------------------------
(* Bounds of the model *)

MaxJoins == 1
MaxSessionJoins == 2
MaxEntries == 5
MaxWords == 2

\* The h3 texts of the cleanup cards a join button can sit in (the page's markup).
CleanupNames == {"Venice Beach"}

\* new Date().toLocaleDateString() at the time of a join.
JoinDates == {"11/4/2026"}

\* Positions the browser may report, in micro-degrees.
UserPositions == {[lat |-> 1290270, lng |-> 103851959]}

----------------------------------------------------------------------------
(* JavaScript values *)

Num(n) == [t |-> "number", n |-> n]
NaN == [t |-> "NaN", n |-> 0]
Null == [t |-> "null", n |-> 0]
Undefined == [t |-> "undefined", n |-> 0]

\* o.k: undefined when o has no property k.
Get(o, k) == IF k \in DOMAIN o THEN o[k] ELSE Undefined

\* a + n for a number n: null converts to 0, undefined and NaN to NaN.
JSAdd(a, n) ==
    IF a.t = "number" THEN Num(a.n + n)
    ELSE IF a.t = "null" THEN Num(n)
    ELSE NaN

\* o.k += n
AddAssign(o, k, n) ==
    [f \in DOMAIN o \cup {k} |-> IF f = k THEN JSAdd(Get(o, k), n) ELSE o[f]]

----------------------------------------------------------------------------
(* Configuration and the state object *)

DEFAULT_LAT == 1381497
DEFAULT_LNG == 103955574

NoLocation == [t |-> "null", lat |-> 0, lng |-> 0]
Location(lat, lng) == [t |-> "object", lat |-> lat, lng |-> lng]

DefaultStats ==
    [cleanupsJoined |-> Num(0), trashCollected |-> Num(0), pointsEarned |-> Num(0)]

DefaultAppState ==
    [userLocation |-> NoLocation, crew |-> <<>>, cleanups |-> <<>>,
     userStats |-> DefaultStats]

names == <<"Alex", "Jordan", "Casey", "Morgan", "Riley", "Taylor">>

POINTS_PER_JOIN == 10
TRASH_MIN == 5
TRASH_SPAN == 20

\* Math.floor(Math.random() * 20) + 5, for Math.random() in [0, 1).
TrashAmounts == {r + TRASH_MIN : r \in 0..(TRASH_SPAN - 1)}

----------------------------------------------------------------------------
(* JSON *)

\* JSON.stringify of one counter: NaN is written as null.
StringifyNumber(v) == IF v.t = "NaN" THEN Null ELSE v

\* JSON.stringify of userStats: properties holding undefined are left out.
StringifyStats(s) ==
    [f \in {g \in DOMAIN s : s[g].t # "undefined"} |-> StringifyNumber(s[f])]

\* A serialization that loses the crew.
JSONstringifyNoCrew(state) ==
    [k \in DOMAIN state \ {"crew"} |->
        IF k = "userStats" THEN StringifyStats(state[k]) ELSE state[k]]

\* JSON.stringify(appState): the document written to localStorage.
JSONstringify(state) ==
    [k \in DOMAIN state |->
        IF k = "userStats" THEN StringifyStats(state[k]) ELSE state[k]]

\* A localStorage entry: absent, the empty string, text that is no JSON, or the
\* text of a document.
EmptyDoc == [k \in {} |-> Null]
NoEntry == [present |-> FALSE, empty |-> FALSE, valid |-> FALSE, doc |-> EmptyDoc]
EmptyEntry == [present |-> TRUE, empty |-> TRUE, valid |-> FALSE, doc |-> EmptyDoc]
GarbageEntry == [present |-> TRUE, empty |-> FALSE, valid |-> FALSE, doc |-> EmptyDoc]
Entry(doc) == [present |-> TRUE, empty |-> FALSE, valid |-> TRUE, doc |-> doc]

\* JSON.parse: throws a SyntaxError on text that is no JSON.
JSONparse(text) ==
    IF text.valid THEN [threw |-> FALSE, value |-> text.doc]
    ELSE [threw |-> TRUE, value |-> EmptyDoc]

\* A merge that recurses into userStats instead of replacing it.
ObjectAssignDeep(target, source) ==
    [k \in DOMAIN target \cup DOMAIN source |->
        IF k \notin DOMAIN source THEN target[k]
        ELSE IF k = "userStats" /\ k \in DOMAIN target
        THEN [f \in DOMAIN target[k] \cup DOMAIN source[k] |->
                IF f \in DOMAIN source[k] THEN source[k][f] ELSE target[k][f]]
        ELSE source[k]]

\* Object.assign(target, source): every own property of source is copied onto
\* target, replacing a same-named property whole.
ObjectAssign(target, source) ==
    [k \in DOMAIN target \cup DOMAIN source |->
        IF k \in DOMAIN source THEN source[k] ELSE target[k]]

----------------------------------------------------------------------------
(* Data persistence *)

\* A save without its try/catch: a rejected write raises.
saveUserDataNoCatch(state, store, writeOk) ==
    IF writeOk
    THEN [storage |-> Entry(JSONstringify(state)), diag |-> "saved", threw |-> FALSE]
    ELSE [storage |-> store, diag |-> "save error", threw |-> TRUE]

\* saveUserData(): writeOk is whether localStorage.setItem accepts the write.
\* The try/catch turns a rejected write into a console warning.
saveUserData(state, store, writeOk) ==
    IF writeOk
    THEN [storage |-> Entry(JSONstringify(state)), diag |-> "saved", threw |-> FALSE]
    ELSE [storage |-> store, diag |-> "save error", threw |-> FALSE]

\* A load whose try/catch does not cover JSON.parse.
loadUserDataNoCatch(state, store, readOk, oldDiag) ==
    IF ~readOk
    THEN [state |-> state, diag |-> "load error", threw |-> FALSE]
    ELSE IF ~store.present \/ store.empty
    THEN [state |-> state, diag |-> oldDiag, threw |-> FALSE]
    ELSE IF JSONparse(store).threw
    THEN [state |-> state, diag |-> oldDiag, threw |-> TRUE]
    ELSE [state |-> ObjectAssign(state, JSONparse(store).value),
          diag |-> "loaded", threw |-> FALSE]

\* loadUserData(): readOk is whether localStorage.getItem answers.  `if (saved)`
\* skips an absent entry and the empty string.  The try/catch covers the read,
\* JSON.parse and Object.assign.
loadUserData(state, store, readOk, oldDiag) ==
    IF ~readOk
    THEN [state |-> state, diag |-> "load error", threw |-> FALSE]
    ELSE IF ~store.present \/ store.empty
    THEN [state |-> state, diag |-> oldDiag, threw |-> FALSE]
    ELSE IF JSONparse(store).threw
    THEN [state |-> state, diag |-> "load error", threw |-> FALSE]
    ELSE [state |-> ObjectAssign(state, JSONparse(store).value),
          diag |-> "loaded", threw |-> FALSE]

----------------------------------------------------------------------------
(* Rendering *)

\* The page as served, before renderStats and renderCrewSection have run.
InitialView == [rendered |-> FALSE, stats |-> <<>>, crewList |-> <<>>]

\* renderStats() and renderCrewSection(): the four counters and the crew list.
Render(state) ==
    [rendered |-> TRUE,
     stats |-> <<Get(state.userStats, "cleanupsJoined"),
                 Get(state.userStats, "trashCollected"),
                 Num(Len(state.crew)),
                 Get(state.userStats, "pointsEarned")>>,
     crewList |-> state.crew]

----------------------------------------------------------------------------
(* The join action *)

\* appState.crew.find(m => m.name === name)
HasMember(crew, name) == \E i \in 1..Len(crew) : crew[i].name = name

\* addCrewMember with its test inverted: only a name already there is pushed.
addCrewMemberInverted(crew, randomName, cleanupName, joined) ==
    IF HasMember(crew, randomName)
    THEN Append(crew, [name |-> randomName, cleanup |-> cleanupName, joined |-> joined])
    ELSE crew

\* addCrewMember(cleanupName), with the name and the date it drew.
addCrewMember(crew, randomName, cleanupName, joined) ==
    IF ~HasMember(crew, randomName)
    THEN Append(crew, [name |-> randomName, cleanup |-> cleanupName, joined |-> joined])
    ELSE crew

\* The three updates of userStats in handleJoinCleanup.
UpdateStats(stats, trash) ==
    AddAssign(AddAssign(AddAssign(stats, "cleanupsJoined", 1),
                        "pointsEarned", POINTS_PER_JOIN),
              "trashCollected", trash)

\* appState after addCrewMember and the stats update of handleJoinCleanup.
JoinMutation(state, randomName, cleanupName, joined, trash) ==
    [state EXCEPT !["crew"] = addCrewMember(@, randomName, cleanupName, joined),
                  !["userStats"] = UpdateStats(@, trash)]

----------------------------------------------------------------------------
(* Forecast texts: sequences of characters *)

UpperCase ==
    <<"A", "B", "C", "D", "E", "F", "G", "H", "I", "J", "K", "L", "M",
      "N", "O", "P", "Q", "R", "S", "T", "U", "V", "W", "X", "Y", "Z">>
LowerCase ==
    <<"a", "b", "c", "d", "e", "f", "g", "h", "i", "j", "k", "l", "m",
      "n", "o", "p", "q", "r", "s", "t", "u", "v", "w", "x", "y", "z">>

\* String.prototype.toLowerCase
toLowerCase(text) ==
    [i \in 1..Len(text) |->
        IF \E j \in 1..26 : UpperCase[j] = text[i]
        THEN LowerCase[CHOOSE j \in 1..26 : UpperCase[j] = text[i]]
        ELSE text[i]]

\* String.prototype.includes
includes(text, part) ==
    \E i \in 0..(Len(text) - Len(part)) : SubSeq(text, i + 1, i + Len(part)) = part

\* The keywords of getWeatherEmoji.
KW_clear == <<"c", "l", "e", "a", "r">>
KW_sunny == <<"s", "u", "n", "n", "y">>
KW_partly_cloudy == <<"p", "a", "r", "t", "l", "y", " ", "c", "l", "o", "u", "d", "y">>
KW_cloudy == <<"c", "l", "o", "u", "d", "y">>
KW_overcast == <<"o", "v", "e", "r", "c", "a", "s", "t">>
KW_rain == <<"r", "a", "i", "n">>
KW_thunder == <<"t", "h", "u", "n", "d", "e", "r">>
KW_storm == <<"s", "t", "o", "r", "m">>
KW_wind == <<"w", "i", "n", "d">>
KW_fog == <<"f", "o", "g">>
KW_haze == <<"h", "a", "z", "e">>

\* The emojis, by name.
SUN == "sun"
SUN_BEHIND_CLOUD == "sun behind cloud"
CLOUD == "cloud"
CLOUD_WITH_RAIN == "cloud with rain"
THUNDER_CLOUD_AND_RAIN == "thunder cloud and rain"
DASH == "dash"
FOGGY == "fog"
SUN_SMALL_CLOUD == "sun behind small cloud"

\* A lookup that tests cloudy/overcast before partly cloudy.
getWeatherEmojiCloudyFirst(weatherText) ==
    LET text == toLowerCase(weatherText) IN
    IF includes(text, KW_clear) \/ includes(text, KW_sunny) THEN SUN
    ELSE IF includes(text, KW_cloudy) \/ includes(text, KW_overcast) THEN CLOUD
    ELSE IF includes(text, KW_partly_cloudy) THEN SUN_BEHIND_CLOUD
    ELSE IF includes(text, KW_rain) \/ includes(text, KW_thunder) THEN CLOUD_WITH_RAIN
    ELSE IF includes(text, KW_storm) THEN THUNDER_CLOUD_AND_RAIN
    ELSE IF includes(text, KW_wind) THEN DASH
    ELSE IF includes(text, KW_fog) \/ includes(text, KW_haze) THEN FOGGY
    ELSE SUN_SMALL_CLOUD

\* getWeatherEmoji(weatherText), for a weatherText that is a string.
getWeatherEmoji(weatherText) ==
    LET text == toLowerCase(weatherText) IN
    IF includes(text, KW_clear) \/ includes(text, KW_sunny) THEN SUN
    ELSE IF includes(text, KW_partly_cloudy) THEN SUN_BEHIND_CLOUD
    ELSE IF includes(text, KW_cloudy) \/ includes(text, KW_overcast) THEN CLOUD
    ELSE IF includes(text, KW_rain) \/ includes(text, KW_thunder) THEN CLOUD_WITH_RAIN
    ELSE IF includes(text, KW_storm) THEN THUNDER_CLOUD_AND_RAIN
    ELSE IF includes(text, KW_wind) THEN DASH
    ELSE IF includes(text, KW_fog) \/ includes(text, KW_haze) THEN FOGGY
    ELSE SUN_SMALL_CLOUD

----------------------------------------------------------------------------
(* The forecast response and its rendering *)

\* Forecast texts and words.
TEXT_Thundery_Showers ==
    <<"T", "h", "u", "n", "d", "e", "r", "y", " ", "S", "h", "o", "w", "e", "r", "s">>
TEXT_Partly_Cloudy ==
    <<"P", "a", "r", "t", "l", "y", " ", "C", "l", "o", "u", "d", "y">>
TEXT_Fair ==
    <<"F", "a", "i", "r">>
TEXT_Clear ==
    <<"C", "l", "e", "a", "r">>
TEXT_SUNNY ==
    <<"S", "U", "N", "N", "Y">>
TEXT_Partly ==
    <<"P", "a", "r", "t", "l", "y">>
TEXT_Cloudy ==
    <<"C", "l", "o", "u", "d", "y">>
TEXT_Overcast ==
    <<"O", "v", "e", "r", "c", "a", "s", "t">>
TEXT_Rain ==
    <<"R", "a", "i", "n">>
TEXT_Thundery ==
    <<"T", "h", "u", "n", "d", "e", "r", "y">>
TEXT_Showers ==
    <<"S", "h", "o", "w", "e", "r", "s">>
TEXT_Storm ==
    <<"S", "t", "o", "r", "m">>
TEXT_Windy ==
    <<"W", "i", "n", "d", "y">>
TEXT_Fog ==
    <<"F", "o", "g">>
TEXT_Haze ==
    <<"H", "a", "z", "e">>

\* date.toLocaleDateString('en-US', ...) of new Date(forecast.date + 'T12:00:00'):
\* the weekday and the month and day; "Invalid Date" when forecast.date is missing.
DateLabels(entry) ==
    IF "date" \notin DOMAIN entry
    THEN [dayName |-> "Invalid Date", dateStr |-> "Invalid Date"]
    ELSE IF entry.date = "2026-11-05" THEN [dayName |-> "Thu", dateStr |-> "Nov 5"]
    ELSE IF entry.date = "2026-11-06" THEN [dayName |-> "Fri", dateStr |-> "Nov 6"]
    ELSE [dayName |-> "Invalid Date", dateStr |-> "Invalid Date"]

\* forecast.temperature[i], for a temperature that is an array.
Temperature(entry, i) ==
    IF i <= Len(entry.temperature) THEN Num(entry.temperature[i]) ELSE Undefined

\* One pass of the loop of displayWeatherForecast: it throws a TypeError when
\* forecast.forecast is missing (toLowerCase of undefined) or when
\* forecast.temperature is missing (index of undefined).
ForecastCard(entry) ==
    IF "forecast" \notin DOMAIN entry \/ "temperature" \notin DOMAIN entry
    THEN [threw |-> TRUE, card |-> EmptyDoc]
    ELSE [threw |-> FALSE,
          card |-> [dayName |-> DateLabels(entry).dayName,
                    dateStr |-> DateLabels(entry).dateStr,
                    emoji |-> getWeatherEmoji(entry.forecast),
                    text |-> entry.forecast,
                    low |-> Temperature(entry, 1),
                    high |-> Temperature(entry, 2)]]

Min(a, b) == IF a < b THEN a ELSE b

MAX_DAYS == 4

\* The contents of the display region.
Placeholder == [kind |-> "placeholder", cards |-> <<>>]
ErrorNotice == [kind |-> "error", cards |-> <<>>]
ForecastGrid(cards) == [kind |-> "grid", cards |-> cards]

\* displayWeatherError()
displayWeatherError == ErrorNotice

\* A rendering without the limit of four days.
displayWeatherForecastAll(forecastData) ==
    IF "items" \notin DOMAIN forecastData THEN displayWeatherError
    ELSE IF Len(forecastData.items) = 0 THEN displayWeatherError
    ELSE
        LET forecasts == IF "forecasts" \in DOMAIN forecastData.items[1]
                         THEN forecastData.items[1].forecasts ELSE <<>>
            shown == Len(forecasts)
        IN  IF \E i \in 1..shown : ForecastCard(forecasts[i]).threw
            THEN displayWeatherError
            ELSE ForecastGrid([i \in 1..shown |-> ForecastCard(forecasts[i]).card])

\* displayWeatherForecast(currentData, forecastData): what it leaves in the
\* region.  forecastData.items[0].forecasts throws when items is missing or
\* empty; the html is assigned once, after the loop; the catch shows the error.
displayWeatherForecast(forecastData) ==
    IF "items" \notin DOMAIN forecastData THEN displayWeatherError
    ELSE IF Len(forecastData.items) = 0 THEN displayWeatherError
    ELSE
        LET forecasts == IF "forecasts" \in DOMAIN forecastData.items[1]
                         THEN forecastData.items[1].forecasts ELSE <<>>
            shown == Min(MAX_DAYS, Len(forecasts))
        IN  IF \E i \in 1..shown : ForecastCard(forecasts[i]).threw
            THEN displayWeatherError
            ELSE ForecastGrid([i \in 1..shown |-> ForecastCard(forecasts[i]).card])

\* A check that gives up only when both responses failed.
FetchFailedBoth(current, forecast) == ~current.ok /\ ~forecast.ok

\* !currentResponse.ok || !forecastResponse.ok
FetchFailed(current, forecast) == ~current.ok \/ ~forecast.ok

----------------------------------------------------------------------------
(* The responses of the weather provider *)

NoResponse == [kind |-> "none", ok |-> FALSE, json |-> FALSE, data |-> EmptyDoc]
Rejected == [kind |-> "rejected", ok |-> FALSE, json |-> FALSE, data |-> EmptyDoc]
Response(ok, json, data) == [kind |-> "response", ok |-> ok, json |-> json, data |-> data]

\* The entries a forecast list is made of: two well-formed ones, and one each
\* without date, without forecast text, without temperature, and with a
\* temperature of one element.
GoodThundery ==
    [date |-> "2026-11-05", forecast |-> TEXT_Thundery_Showers, temperature |-> <<24, 31>>]
GoodPartly ==
    [date |-> "2026-11-06", forecast |-> TEXT_Partly_Cloudy, temperature |-> <<25, 33>>]
NoDateEntry == [forecast |-> TEXT_Partly_Cloudy, temperature |-> <<25, 33>>]
NoTextEntry == [date |-> "2026-11-06", temperature |-> <<25, 33>>]
NoTempEntry == [date |-> "2026-11-06", forecast |-> TEXT_Partly_Cloudy]
ShortTempEntry ==
    [date |-> "2026-11-06", forecast |-> TEXT_Partly_Cloudy, temperature |-> <<25>>]

EntryPool ==
    {GoodThundery, GoodPartly, NoDateEntry, NoTextEntry, NoTempEntry, ShortTempEntry}

ForecastLists == UNION {[1..n -> EntryPool] : n \in 0..MaxEntries}

\* The JSON bodies of the 4-day endpoint: without items, with items: [], with an
\* item without forecasts, and with items[0].forecasts a list.
ForecastBodies ==
    {EmptyDoc, [items |-> <<>>], [items |-> <<EmptyDoc>>]}
    \cup {[items |-> <<[forecasts |-> f]>>] : f \in ForecastLists}

\* What fetch(WEATHER_2HR) may settle with; its data is never read.
CurrentResponses ==
    {Rejected} \cup {Response(ok, json, EmptyDoc) : ok \in BOOLEAN, json \in BOOLEAN}

\* What fetch(WEATHER_4DAY) may settle with.
ForecastResponses ==
    {Rejected, Response(TRUE, FALSE, EmptyDoc), Response(FALSE, FALSE, EmptyDoc)}
    \cup {Response(TRUE, TRUE, d) : d \in ForecastBodies}
    \cup {Response(FALSE, TRUE, d) :
            d \in {EmptyDoc, [items |-> <<[forecasts |-> <<GoodThundery, GoodPartly>>]>>]}}

\* The words forecast texts are made of, in the provider's mixed case.
ForecastWords ==
    {TEXT_Fair, TEXT_Clear, TEXT_SUNNY, TEXT_Partly, TEXT_Cloudy, TEXT_Overcast,
     TEXT_Rain, TEXT_Thundery, TEXT_Showers, TEXT_Storm, TEXT_Windy, TEXT_Fog,
     TEXT_Haze}

RECURSIVE JoinWords(_)
JoinWords(ws) ==
    IF Len(ws) = 0 THEN <<>>
    ELSE IF Len(ws) = 1 THEN ws[1]
    ELSE ws[1] \o <<" ">> \o JoinWords(Tail(ws))

ForecastTexts ==
    {JoinWords(ws) : ws \in UNION {[1..n -> ForecastWords] : n \in 0..MaxWords}}

----------------------------------------------------------------------------
(* Initial states and actions *)

\* A state saved by an earlier session.
SavedEarlier ==
    [userLocation |-> NoLocation,
     crew |-> <<[name |-> "Riley", cleanup |-> "Venice Beach", joined |-> "11/1/2026"]>>,
     cleanups |-> <<>>,
     userStats |-> [cleanupsJoined |-> Num(1), trashCollected |-> Num(7),
                    pointsEarned |-> Num(10)]]

\* A stored object of an older shape: userStats with pointsEarned alone.
OlderShape == [userStats |-> [pointsEarned |-> Num(50)]]

\* A stored object of an older shape that held the crew as well.
OlderShapeWithCrew ==
    [crew |-> <<[name |-> "Alex", cleanup |-> "Venice Beach", joined |-> "10/28/2026"]>>,
     userStats |-> [pointsEarned |-> Num(50)]]

\* What localStorage may hold when the page is first opened: nothing, the
\* empty string, text that is no JSON, a state saved by this program, or one of
\* an older shape.
InitialEntries ==
    {NoEntry, EmptyEntry, GarbageEntry, Entry(JSONstringify(SavedEarlier)),
     Entry(OlderShape), Entry(OlderShapeWithCrew)}

InitCommon ==
    /\ appState = DefaultAppState
    /\ view = InitialView
    /\ diag = "none"
    /\ pc = "boot"
    /\ geo = "none"
    /\ clicks = 0
    /\ lastJoin = "none"
    /\ wpc = "idle"
    /\ currentResponse = NoResponse
    /\ forecastResponse = NoResponse
    /\ weatherData = Placeholder
    /\ issued = <<>>
    /\ writes = 0
    /\ emojiOut = "none"

Init == InitCommon /\ storage \in InitialEntries /\ emojiIn = <<>>

InitFresh == InitCommon /\ storage = NoEntry /\ emojiIn = <<>>

InitEmoji == InitCommon /\ storage = NoEntry /\ emojiIn \in ForecastTexts

\* initializeApp(): getUserLocation() asks for the position (a browser without
\* geolocation behaves as one whose callback never comes), loadUserData()
\* merges the stored state, fetchWeatherData() runs up to its first await,
\* setupEventListeners() installs the join handler, renderStats() and
\* renderCrewSection() draw the page.
InitializeApp ==
    /\ pc = "boot"
    /\ \E readOk \in BOOLEAN :
        LET r == loadUserData(appState, storage, readOk, diag) IN
        /\ geo' = "pending"
        /\ appState' = r.state
        /\ diag' = r.diag
        /\ pc' = IF r.threw THEN "broken" ELSE "ready"
        /\ view' = IF r.threw THEN view ELSE Render(r.state)
        /\ wpc' = IF r.threw THEN wpc ELSE "awaitCurrent"
        /\ issued' = IF r.threw THEN issued ELSE Append(issued, "WEATHER_2HR")
    /\ UNCHANGED <<storage, clicks, lastJoin>>
    /\ UNCHANGED <<currentResponse, forecastResponse, weatherData, writes>>
    /\ UNCHANGED emojiVars

\* The success callback of getCurrentPosition.
GeoSuccess ==
    /\ pc # "boot"
    /\ geo = "pending"
    /\ \E p \in UserPositions :
        appState' = [appState EXCEPT !["userLocation"] = Location(p.lat, p.lng)]
    /\ geo' = "done"
    /\ UNCHANGED <<storage, view, diag, pc, clicks, lastJoin>>
    /\ UNCHANGED <<pipeVars, emojiVars>>

\* The error callback of getCurrentPosition: the default location.
GeoError ==
    /\ pc # "boot"
    /\ geo = "pending"
    /\ appState' = [appState EXCEPT !["userLocation"] = Location(DEFAULT_LAT, DEFAULT_LNG)]
    /\ geo' = "done"
    /\ UNCHANGED <<storage, view, diag, pc, clicks, lastJoin>>
    /\ UNCHANGED <<pipeVars, emojiVars>>

\* The body of handleJoinCleanup up to its save: addCrewMember, the three
\* counter updates, then saveUserData on the state so mutated.
JoinAndSaveEarly(state, store, randomName, cleanupName, joined, trash, writeOk) ==
    LET withCrew == [state EXCEPT !["crew"] =
                        addCrewMember(state.crew, randomName, cleanupName, joined)] IN
    [state |-> JoinMutation(state, randomName, cleanupName, joined, trash),
     save |-> saveUserData(withCrew, store, writeOk)]

JoinAndSave(state, store, randomName, cleanupName, joined, trash, writeOk) ==
    LET mutated == JoinMutation(state, randomName, cleanupName, joined, trash) IN
    [state |-> mutated, save |-> saveUserData(mutated, store, writeOk)]

\* handleJoinCleanup(event): a click on a join button, the limit-th at most.
JoinClick(limit) ==
    /\ pc = "ready"
    /\ clicks < limit
    /\ \E i \in 1..Len(names), c \in CleanupNames, d \in JoinDates,
          trash \in TrashAmounts, writeOk \in BOOLEAN :
        LET j == JoinAndSave(appState, storage, names[i], c, d, trash, writeOk)
            mutated == j.state
            s == j.save IN
        /\ appState' = mutated
        /\ storage' = s.storage
        /\ diag' = s.diag
        /\ view' = IF s.threw THEN view ELSE Render(mutated)
        /\ lastJoin' = IF s.threw THEN "threw" ELSE "completed"
    /\ clicks' = clicks + 1
    /\ UNCHANGED <<pc, geo>>
    /\ UNCHANGED <<pipeVars, emojiVars>>

HandleJoinCleanup == JoinClick(MaxJoins)

\* The same handler in a session that is never reloaded.
HandleJoinCleanupInSession == JoinClick(MaxSessionJoins)

\* The page is closed and opened again: a fresh instance on the same storage.
Reload ==
    /\ pc # "boot"
    /\ appState' = DefaultAppState
    /\ view' = InitialView
    /\ diag' = "none"
    /\ pc' = "boot"
    /\ geo' = "none"
    /\ lastJoin' = "none"
    /\ wpc' = "idle"
    /\ currentResponse' = NoResponse
    /\ forecastResponse' = NoResponse
    /\ weatherData' = Placeholder
    /\ issued' = <<>>
    /\ writes' = 0
    /\ UNCHANGED <<storage, clicks>>
    /\ UNCHANGED emojiVars

\* A catch that writes the notice after the region was already written.
ShowErrorTwice ==
    /\ weatherData' = displayWeatherError
    /\ writes' = writes + 2
    /\ wpc' = "done"

\* The catch of fetchWeatherData: displayWeatherError() and the end of the run.
ShowError ==
    /\ weatherData' = displayWeatherError
    /\ writes' = writes + 1
    /\ wpc' = "done"

\* await fetch(CONFIG.API.WEATHER_2HR) settles; on a response, the 4-day
\* request is issued.
CurrentSettles ==
    /\ wpc = "awaitCurrent"
    /\ \E r \in CurrentResponses :
        /\ currentResponse' = r
        /\ IF r.kind = "rejected"
           THEN ShowError /\ UNCHANGED issued
           ELSE /\ wpc' = "awaitForecast"
                /\ issued' = Append(issued, "WEATHER_4DAY")
                /\ UNCHANGED <<weatherData, writes>>
    /\ UNCHANGED forecastResponse
    /\ UNCHANGED <<storeVars, emojiVars>>

\* await fetch(CONFIG.API.WEATHER_4DAY) settles; the ok flags are tested and
\* currentResponse.json() is called.
ForecastSettles ==
    /\ wpc = "awaitForecast"
    /\ \E r \in ForecastResponses :
        /\ forecastResponse' = r
        /\ IF r.kind = "rejected" THEN ShowError
           ELSE IF FetchFailed(currentResponse, r) THEN ShowError
           ELSE wpc' = "awaitCurrentJson" /\ UNCHANGED <<weatherData, writes>>
    /\ UNCHANGED <<currentResponse, issued>>
    /\ UNCHANGED <<storeVars, emojiVars>>

\* await currentResponse.json() settles; forecastResponse.json() is called.
CurrentJsonSettles ==
    /\ wpc = "awaitCurrentJson"
    /\ IF ~currentResponse.json THEN ShowError
       ELSE wpc' = "awaitForecastJson" /\ UNCHANGED <<weatherData, writes>>
    /\ UNCHANGED <<currentResponse, forecastResponse, issued>>
    /\ UNCHANGED <<storeVars, emojiVars>>

\* await forecastResponse.json() settles; displayWeatherForecast() renders.
ForecastJsonSettles ==
    /\ wpc = "awaitForecastJson"
    /\ IF ~forecastResponse.json THEN ShowError
       ELSE /\ weatherData' = displayWeatherForecast(forecastResponse.data)
            /\ writes' = writes + 1
            /\ wpc' = "done"
    /\ UNCHANGED <<currentResponse, forecastResponse, issued>>
    /\ UNCHANGED <<storeVars, emojiVars>>

\* One call of getWeatherEmoji.
ApplyEmoji ==
    /\ emojiOut = "none"
    /\ emojiOut' = getWeatherEmoji(emojiIn)
    /\ UNCHANGED <<emojiIn, storeVars, pipeVars>>

Next ==
    \/ InitializeApp
    \/ GeoSuccess
    \/ GeoError
    \/ HandleJoinCleanup
    \/ Reload

NextForecast ==
    \/ InitializeApp
    \/ CurrentSettles
    \/ ForecastSettles
    \/ CurrentJsonSettles
    \/ ForecastJsonSettles
    \/ Reload

NextEmoji == ApplyEmoji

\* One session on an empty localStorage: initializeApp, then join clicks.
NextSession ==
    \/ InitializeApp
    \/ HandleJoinCleanupInSession

Spec == Init /\ [][Next]_vars

SpecFresh == InitFresh /\ [][Next]_vars

SpecForecast == InitFresh /\ [][NextForecast]_vars

SpecEmoji == InitEmoji /\ [][NextEmoji]_vars

SpecSession == InitFresh /\ [][NextSession]_vars

----------------------------------------------------------------------------
(* Properties of the store *)

\* A step of handleJoinCleanup, and a step of initializeApp.
IsJoinStep == clicks' = clicks + 1
IsLoadStep == pc = "boot" /\ pc' # "boot"

IsNumber(v) == v.t = "number"
Counter(state, k) == Get(state.userStats, k)

\* One counter is a number before and after, and went up by an amount in deltas.
IncreasedBy(before, after, k, deltas) ==
    /\ IsNumber(Counter(before, k))
    /\ IsNumber(Counter(after, k))
    /\ Counter(after, k).n - Counter(before, k).n \in deltas

\* The three counters went up as a join says they do.
StatsIncremented(before, after) ==
    /\ IncreasedBy(before, after, "cleanupsJoined", {1})
    /\ IncreasedBy(before, after, "pointsEarned", {10})
    /\ IncreasedBy(before, after, "trashCollected", 5..24)

\* C1: in every reachable state, states that loadUserData merged from a
\* stored value included, one join raises cleanupsJoined by exactly 1,
\* pointsEarned by exactly 10 and trashCollected by an integer in 5..24, so
\* no counter ever decreases.
C1_JoinIncrements == [][IsJoinStep => StatsIncremented(appState, appState')]_vars

NoDuplicateNames(crew) ==
    \A i, j \in 1..Len(crew) : crew[i].name = crew[j].name => i = j

\* C2: crew holds at most one member per name; a join that draws a name
\* already in crew leaves crew as it is while the stats of that join are
\* still incremented, and a join that draws a new name appends exactly one
\* member at the end.
C2_CrewUnique ==
    [][IsJoinStep =>
        /\ NoDuplicateNames(appState'.crew)
        /\ \/ /\ appState'.crew = appState.crew
              /\ Len(appState.crew) > 0
              /\ StatsIncremented(appState, appState')
           \/ /\ Len(appState'.crew) = Len(appState.crew) + 1
              /\ SubSeq(appState'.crew, 1, Len(appState.crew)) = appState.crew
              /\ ~HasMember(appState.crew, appState'.crew[Len(appState'.crew)].name)
      ]_vars

\* The state a fresh instance holds after loading what save() wrote of state.
Reloaded(state) ==
    loadUserData(DefaultAppState, saveUserData(state, NoEntry, TRUE).storage,
                 TRUE, "none").state

C4_LoadSafe ==
    [][IsLoadStep =>
        /\ pc' = "ready"
        /\ appState = DefaultAppState
        /\ (appState' # appState =>
                storage.present /\ ~storage.empty /\ storage.valid /\ diag' = "loaded")
        /\ (~storage.present \/ ~storage.valid \/ diag' = "load error" =>
                appState' = DefaultAppState)
      ]_vars

\* The page came up on a stored text that is no JSON, with the defaults kept.
C4_Witness ==
    /\ pc = "ready"
    /\ storage = GarbageEntry
    /\ diag = "load error"
    /\ appState = DefaultAppState
    /\ view = Render(DefaultAppState)

\* C5: load() is a shallow merge: a top-level field of the stored object
\* replaces the field of appState whole, a field the stored object lacks keeps
\* its value.  A stored userStats of {pointsEarned: 50} alone gives
\* pointsEarned 50 with cleanupsJoined and trashCollected undefined, and
\* crew, cleanups and userLocation at their defaults.
C5_ShallowMerge ==
    [][IsLoadStep /\ diag' = "loaded" =>
        /\ \A k \in DOMAIN appState :
              appState'[k] = IF k \in DOMAIN storage.doc THEN storage.doc[k]
                             ELSE appState[k]
        /\ storage = Entry(OlderShape) =>
              /\ Counter(appState', "pointsEarned") = Num(50)
              /\ Counter(appState', "cleanupsJoined") = Undefined
              /\ Counter(appState', "trashCollected") = Undefined
              /\ appState'.crew = <<>>
              /\ appState'.cleanups = <<>>
              /\ appState'.userLocation = NoLocation
      ]_vars

\* The page came up on the stored object of the older shape.
C5_Witness ==
    /\ pc = "ready"
    /\ diag = "loaded"
    /\ storage = Entry(OlderShape)
    /\ clicks = 0
    /\ DOMAIN appState.userStats = {"pointsEarned"}

\* What a join drew, read off the states before and after it: the member it
\* appended (on a repeated name, the first member), and the trash amount (the
\* difference of trashCollected, where that is a number).
DrawnMember(before, after) ==
    IF Len(after.crew) > 0 THEN after.crew[Len(after.crew)]
    ELSE [name |-> "", cleanup |-> "", joined |-> ""]
DrawnName(before, after) == DrawnMember(before, after).name
DrawnTrash(before, after) ==
    LET delta == Counter(after, "trashCollected").n - Counter(before, "trashCollected").n
    IN  IF delta \in TrashAmounts THEN delta ELSE TRASH_MIN

\* C6: save() never raises: when the medium rejects the write, the stored
\* value stays what it was, appState keeps the crew and stats changes of the
\* join, and the join runs to its end (the page shows the new counters).
C6_SaveSafe ==
    [][IsJoinStep =>
        /\ lastJoin' = "completed"
        /\ view' = Render(appState')
        /\ (diag' = "save error" =>
              /\ storage' = storage
              /\ appState' = JoinMutation(appState, DrawnName(appState, appState'),
                                          DrawnMember(appState, appState').cleanup,
                                          DrawnMember(appState, appState').joined,
                                          DrawnTrash(appState, appState')))
      ]_vars

\* A join ended on a rejected write: nothing stored, the changes in memory.
C6_Witness ==
    /\ diag = "save error"
    /\ lastJoin = "completed"
    /\ storage = NoEntry
    /\ Len(appState.crew) = 1
    /\ Counter(appState, "cleanupsJoined") = Num(1)
    /\ view = Render(appState)

----------------------------------------------------------------------------
(* Properties of the forecast pipeline *)

\* A request ended with a transport failure or a non-success status.
RequestFailed(r) == r.kind = "rejected" \/ (r.kind = "response" /\ ~r.ok)

\* Both requests ended with a success status.
BothSucceed ==
    /\ currentResponse.kind = "response" /\ currentResponse.ok
    /\ forecastResponse.kind = "response" /\ forecastResponse.ok

\* C7: in a run where one of the two requests ends with a non-success status
\* or a transport failure, the region never holds forecast entries and ends
\* holding the error notice, also when the other request succeeded with a
\* valid body.
C7_FailureShowsError ==
    RequestFailed(currentResponse) \/ RequestFailed(forecastResponse) =>
        /\ weatherData.kind # "grid"
        /\ wpc = "done" => weatherData = ErrorNotice

\* The near-term request failed, the forecast request brought a valid list.
C7_Witness ==
    /\ wpc = "done"
    /\ currentResponse = Response(FALSE, TRUE, EmptyDoc)
    /\ forecastResponse =
          Response(TRUE, TRUE, [items |-> <<[forecasts |-> <<GoodThundery, GoodPartly>>]>>])
    /\ weatherData = ErrorNotice

\* An entry with a date, a forecast text and a temperature of two elements.
WellFormedEntry(e) ==
    /\ DOMAIN e = {"date", "forecast", "temperature"}
    /\ Len(e.temperature) = 2

HasForecasts(d) ==
    /\ "items" \in DOMAIN d
    /\ Len(d.items) > 0
    /\ "forecasts" \in DOMAIN d.items[1]

\* The forecast response is well-formed: items[0].forecasts is a list of
\* well-formed entries.
WellFormedForecast(d) ==
    /\ HasForecasts(d)
    /\ \A i \in 1..Len(d.items[1].forecasts) : WellFormedEntry(d.items[1].forecasts[i])

\* The region holds, written in one batch, the first min(N, 4) entries of the
\* list in the list's order.
ShowsFirstFour(forecasts) ==
    /\ weatherData.kind = "grid"
    /\ Len(weatherData.cards) = Min(Len(forecasts), 4)
    /\ \A i \in 1..Len(weatherData.cards) :
          /\ weatherData.cards[i].text = forecasts[i].forecast
          /\ weatherData.cards[i].low = Num(forecasts[i].temperature[1])
          /\ weatherData.cards[i].high = Num(forecasts[i].temperature[2])
          /\ weatherData.cards[i].dateStr = DateLabels(forecasts[i]).dateStr
    /\ writes = 1

\* C8 as stated: whenever both requests succeed and the forecast response is
\* well-formed with N >= 0 entries, the region ends holding exactly the first
\* min(N, 4) entries in response order, written as one batch.
C8_AsStated ==
    (/\ wpc = "done"
     /\ BothSucceed
     /\ forecastResponse.json
     /\ WellFormedForecast(forecastResponse.data))
    => ShowsFirstFour(forecastResponse.data.items[1].forecasts)

\* C8: whenever both requests succeed, the body of the near-term response
\* deserializes, and the forecast response is well-formed with N >= 0 entries,
\* the region ends holding exactly the first min(N, 4) entries in response
\* order, written as one batch that replaces the prior content.
C8_FirstFour ==
    (/\ wpc = "done"
     /\ BothSucceed
     /\ currentResponse.json
     /\ forecastResponse.json
     /\ WellFormedForecast(forecastResponse.data))
    => ShowsFirstFour(forecastResponse.data.items[1].forecasts)

\* A well-formed list of five entries was rendered as four cards.
C8_Witness ==
    /\ wpc = "done"
    /\ BothSucceed
    /\ currentResponse.json
    /\ forecastResponse.json
    /\ WellFormedForecast(forecastResponse.data)
    /\ Len(forecastResponse.data.items[1].forecasts) = 5
    /\ weatherData.kind = "grid"
    /\ Len(weatherData.cards) = 4

\* The forecast response is malformed: no items, items empty, or an entry
\* without one of its fields.
MalformedForecast(d) ==
    \/ "items" \notin DOMAIN d
    \/ Len(d.items) = 0
    \/ /\ HasForecasts(d)
       /\ \E i \in 1..Len(d.items[1].forecasts) : ~WellFormedEntry(d.items[1].forecasts[i])

\* C9: when both requests succeed and the forecast response is malformed
\* (items missing, items empty, or an entry lacking its date, its forecast text
\* or its two-element temperature), the region ends holding the error notice.
C9_MalformedShowsError ==
    (/\ wpc = "done"
     /\ BothSucceed
     /\ forecastResponse.json
     /\ MalformedForecast(forecastResponse.data))
    => weatherData = ErrorNotice

----------------------------------------------------------------------------
(* Properties of getWeatherEmoji *)

\* The decision table: the keywords of each rule and its icon, in priority order.
DecisionTable ==
    << [keywords |-> {KW_clear, KW_sunny}, icon |-> SUN],
       [keywords |-> {KW_partly_cloudy}, icon |-> SUN_BEHIND_CLOUD],
       [keywords |-> {KW_cloudy, KW_overcast}, icon |-> CLOUD],
       [keywords |-> {KW_rain, KW_thunder}, icon |-> CLOUD_WITH_RAIN],
       [keywords |-> {KW_storm}, icon |-> THUNDER_CLOUD_AND_RAIN],
       [keywords |-> {KW_wind}, icon |-> DASH],
       [keywords |-> {KW_fog, KW_haze}, icon |-> FOGGY] >>

\* Character c is letter k in either case.
FoldsTo(c, k) == c = k \/ \E j \in 1..26 : UpperCase[j] = c /\ LowerCase[j] = k

\* The keyword occurs in the text, whatever the case of the text's letters.
Mentions(text, keyword) ==
    \E i \in 0..(Len(text) - Len(keyword)) :
        \A j \in 1..Len(keyword) : FoldsTo(text[i + j], keyword[j])

\* The icon of the first rule of the table with a keyword in the text.
TableIcon(text) ==
    LET hits == {r \in 1..Len(DecisionTable) :
                    \E kw \in DecisionTable[r].keywords : Mentions(text, kw)}
    IN  IF hits = {} THEN SUN_SMALL_CLOUD
        ELSE DecisionTable[CHOOSE r \in hits : \A q \in hits : r <= q].icon

\* C10: the icon of a forecast text is that of the first rule, in the order
\* clear/sunny, partly cloudy, cloudy/overcast, rain/thunder, storm, wind,
\* fog/haze, that has a keyword in the text as a substring in any case; a text
\* with no keyword gets the default icon.  "Thundery Showers" gets the
\* rain/thunder icon, "Partly Cloudy" the partly-cloudy icon.
C10_IconPriority ==
    emojiOut # "none" =>
        /\ emojiOut = TableIcon(emojiIn)
        /\ emojiIn = TEXT_Thundery_Showers => emojiOut = CLOUD_WITH_RAIN
        /\ emojiIn = TEXT_Partly_Cloudy => emojiOut = SUN_BEHIND_CLOUD

\* "Partly Cloudy", which has the keywords of two rules, got the icon of the first.
C10_Witness ==
    /\ emojiIn = TEXT_Partly_Cloudy
    /\ emojiOut = SUN_BEHIND_CLOUD

----------------------------------------------------------------------------
(* Properties of one session that starts from the defaults *)

----------------------------------------------------------------------------
(* Properties of a run of the forecast pipeline *)

\* The request of that name has been issued in this run, and has settled.
Issued(name) == \E i \in 1..Len(issued) : issued[i] = name
Settled(r) == r.kind # "none"

\* The shape of a run: the near-term request first and once, the multi-day
\* request once at most and only when the near-term one has brought a response;
\* one write of the region when the run is over and none before, made when
\* every issued request has settled.
RunShape ==
    /\ issued \in {<<>>, <<"WEATHER_2HR">>, <<"WEATHER_2HR", "WEATHER_4DAY">>}
    /\ Issued("WEATHER_4DAY") => currentResponse.kind = "response"
    /\ ~Issued("WEATHER_2HR") => ~Settled(currentResponse)
    /\ ~Issued("WEATHER_4DAY") => ~Settled(forecastResponse)
    /\ writes = IF wpc = "done" THEN 1 ELSE 0
    /\ writes = 0 => weatherData = Placeholder
    /\ writes = 1 =>
        /\ weatherData.kind \in {"grid", "error"}
        /\ Settled(currentResponse)
        /\ Issued("WEATHER_4DAY") => Settled(forecastResponse)

\* A step of a run: a request is issued only while nothing has failed and
\* nothing is written, a settled request stays as it settled, and the region
\* is written in the step that ends the run; only a new page starts over.
RunStep ==
    \/ wpc' = "idle" /\ issued' = <<>> /\ writes' = 0
    \/ /\ wpc # "done"
       /\ issued' # issued =>
            /\ \E name \in {"WEATHER_2HR", "WEATHER_4DAY"} :
                    ~Issued(name) /\ issued' = Append(issued, name)
            /\ currentResponse'.kind # "rejected"
            /\ ~Settled(forecastResponse')
            /\ writes' = 0
       /\ Settled(currentResponse) => currentResponse' = currentResponse
       /\ Settled(forecastResponse) => forecastResponse' = forecastResponse
       /\ writes' # writes => writes' = writes + 1 /\ wpc' = "done"

\* C12: each run of the forecast pipeline is a single attempt with sequential
\* requests: the near-term request is issued once, the multi-day request at
\* most once and only after the near-term request has completed, no request
\* is issued again after a failure, and a run that comes to its end has
\* written the region exactly once, after the last of its requests completed.
C12_SingleAttempt == []RunShape /\ [][RunStep]_vars

\* A run over: both requests issued in order and settled, the forecast batch
\* written by the one write of the run.
C12_Witness ==
    /\ wpc = "done"
    /\ issued = <<"WEATHER_2HR", "WEATHER_4DAY">>
    /\ Settled(currentResponse) /\ Settled(forecastResponse)
    /\ writes = 1
    /\ weatherData.kind = "grid"

----------------------------------------------------------------------------
(* Persistence after a join, and the place of the load in the startup *)

\* C13: when a join has completed on a medium that accepted the write, the
\* value stored under the key is the serialization of the whole appState as the
\* join left it, with the crew and the three counter updates of that join; and
\* loadUserData runs in initializeApp before the join handler is installed, on
\* an appState that no join of this session has touched.
C13_PersistedAfterJoin ==
    [][/\ IsJoinStep =>
            /\ pc = "ready"
            /\ diag' = "saved" =>
                /\ storage' = Entry(JSONstringify(appState'))
                /\ appState' = JoinMutation(appState, DrawnName(appState, appState'),
                                            DrawnMember(appState, appState').cleanup,
                                            DrawnMember(appState, appState').joined,
                                            DrawnTrash(appState, appState'))
                /\ storage'.doc.crew = appState'.crew
                /\ JSONstringify(appState').userStats # JSONstringify(appState).userStats
       /\ IsLoadStep =>
            /\ lastJoin = "none"
            /\ appState = DefaultAppState
      ]_vars

\* A join completed and saved after the geolocation callback: the entry holds
\* the new member, the new counters and the location.
C13_Witness ==
    /\ lastJoin = "completed"
    /\ diag = "saved"
    /\ geo = "done"
    /\ Len(appState.crew) >= 1
    /\ Counter(appState, "cleanupsJoined") = Num(1)
    /\ storage = Entry(JSONstringify(appState))

====
